---- MODULE Spec2Model ----
(***************************************************************************)
(* Tree query / filter / cache / export engine of robotframework-javaui,   *)
(* as implemented by MockSwingLibrary (tests/python/conftest.py), the      *)
(* in-repository stand-in of the backend that the keyword wrappers         *)
(* (python/JavaGui/__init__.py) delegate to.                               *)
(*                                                                         *)
(* Text is a sequence of pieces.  Every text the code parses or joins      *)
(* (type names, patterns, the format name, the cache key) is written one   *)
(* character per piece, so that splitting, stripping, wildcard matching    *)
(* and key collisions are computed, not assumed.  Encoded output is a      *)
(* sequence of pieces too; the literal parts written by an encoder are     *)
(* one piece each.                                                         *)
(***************************************************************************)
EXTENDS Integers, Sequences, FiniteSets, TLC

VARIABLES
    _tree_cache,       \* MockSwingLibrary._tree_cache: cache_key -> result
    _tree_call_count,  \* MockSwingLibrary._tree_call_count: cache_key -> calls
    last,              \* the call that ran last: arguments, path taken, outcome
    calls,             \* number of keyword calls made so far
    threads,           \* the calls running concurrently: position and locals of each
    wait               \* wait_until_element_contains: position, clock and locals

vars == <<_tree_cache, _tree_call_count, last, calls, threads, wait>>

(***************************************************************************)
(* Text literals, one character per piece.                                 *)
(***************************************************************************)
s_JFrame == <<"J","F","r","a","m","e">>
s_JPanel == <<"J","P","a","n","e","l">>
s_JButton == <<"J","B","u","t","t","o","n">>
s_JTextField == <<"J","T","e","x","t","F","i","e","l","d">>
s_JLabel == <<"J","L","a","b","e","l">>
s_JToggleButton == <<"J","T","o","g","g","l","e","B","u","t","t","o","n">>
s_JRadioButton == <<"J","R","a","d","i","o","B","u","t","t","o","n">>
s_None == <<"N","o","n","e">>
s_True == <<"T","r","u","e">>
s_False == <<"F","a","l","s","e">>
s_unlimited == <<"u","n","l","i","m","i","t","e","d">>
s_json == <<"j","s","o","n">>
s_yaml == <<"y","a","m","l">>
s_xml == <<"x","m","l">>
s_text == <<"t","e","x","t">>
s_csv == <<"c","s","v">>
s_YAML == <<"Y","A","M","L">>
s_bogus == <<"b","o","g","u","s">>

\* Optional[str]: None, or a text.
None == [some |-> FALSE, val |-> <<>>]
Some(s) == [some |-> TRUE, val |-> s]

\* Python's str(x) inside the f-string of the cache key.
StrOpt(o) == IF o.some THEN o.val ELSE s_None
StrBool(b) == IF b THEN s_True ELSE s_False

\* max_depth arguments: None, an int, or a value that is no int ("5", 5.5).
DepthNone == [kind |-> "none", val |-> 0]
DepthInt(n) == [kind |-> "int", val |-> n]
DepthStr == [kind |-> "str", val |-> 5]
DepthFloat == [kind |-> "float", val |-> 5]

(***************************************************************************)
(* str.split(','), str.strip()                                             *)
(***************************************************************************)
IsSpace(c) == c \in {" ", "\t", "\n"}

RECURSIVE LStrip(_)
LStrip(s) ==
    IF s # <<>> /\ IsSpace(Head(s)) THEN LStrip(Tail(s)) ELSE s

RECURSIVE RStrip(_)
RStrip(s) ==
    IF s # <<>> /\ IsSpace(s[Len(s)]) THEN RStrip(SubSeq(s, 1, Len(s) - 1)) ELSE s

strip(s) == RStrip(LStrip(s))

\* s.split(','): the fields between commas, empty fields included.
RECURSIVE SplitFrom(_, _, _)
SplitFrom(s, i, cur) ==
    IF i > Len(s) THEN <<cur>>
    ELSE IF s[i] = "," THEN <<cur>> \o SplitFrom(s, i + 1, <<>>)
    ELSE SplitFrom(s, i + 1, Append(cur, s[i]))

split(s) == SplitFrom(s, 1, <<>>)

\* [t.strip() for t in s.split(',')]
StrippedList(s) == [i \in 1..Len(split(s)) |-> strip(split(s)[i])]

\* [t.strip() for t in s.split(',') if t.strip()]
NonEmptyStrippedList(s) == SelectSeq(StrippedList(s), LAMBDA t : t # <<>>)

(***************************************************************************)
(* The mock tree (conftest.py 340-520).  A component is the dict of the    *)
(* source; "text" is <<>> when the dict has no "text" key.                 *)
(***************************************************************************)
Comp(cls, name, text, visible, enabled, showing, focusable, children) ==
    [type |-> cls, simpleClass |-> cls, name |-> name, text |-> text,
     visible |-> visible, enabled |-> enabled, showing |-> showing,
     focusable |-> focusable, children |-> children]

timestamp == 1234567890

c_loginBtn == Comp(s_JButton, "loginBtn", <<"Login">>, TRUE, TRUE, TRUE, TRUE, <<>>)
c_usernameField == Comp(s_JTextField, "usernameField", <<>>, TRUE, TRUE, TRUE, TRUE, <<>>)
c_statusLabel == Comp(s_JLabel, "statusLabel", <<"Ready">>, TRUE, TRUE, TRUE, FALSE, <<>>)
c_toggleBtn == Comp(s_JToggleButton, "toggleBtn", <<>>, FALSE, TRUE, FALSE, TRUE, <<>>)
c_radioBtn == Comp(s_JRadioButton, "radioBtn", <<>>, TRUE, FALSE, TRUE, TRUE, <<>>)

c_contentPane(children) ==
    Comp(s_JPanel, "contentPane", <<>>, TRUE, TRUE, TRUE, FALSE, children)

c_mainFrame(children) ==
    Comp(s_JFrame, "mainFrame", <<>>, TRUE, TRUE, TRUE, TRUE, children)

\* max_depth == 0: only roots, no children (342-356)
tree_depth0 ==
    [roots |-> <<c_mainFrame(<<>>)>>, timestamp |-> timestamp]

\* max_depth == 1: root + immediate children only (357-382)
tree_depth1 ==
    [roots |-> <<c_mainFrame(<<c_contentPane(<<>>)>>)>>, timestamp |-> timestamp]

\* max_depth is not None and max_depth <= 5 (383-441)
tree_depth2to5 ==
    [roots |-> <<c_mainFrame(<<c_contentPane(
                    <<c_loginBtn, c_usernameField, c_statusLabel>>)>>)>>,
     timestamp |-> timestamp]

\* else: unlimited depth or deep tree, the full tree (442-520)
tree_full ==
    [roots |-> <<c_mainFrame(<<c_contentPane(
                    <<c_loginBtn, c_usernameField, c_statusLabel,
                      c_toggleBtn, c_radioBtn>>)>>)>>,
     timestamp |-> timestamp]

\* The if/elif chain that picks the tree for a validated max_depth.
mock_tree_ignoring_depth(max_depth) == tree_full

mock_tree_one_level_more(max_depth) ==
    IF max_depth.kind = "int" /\ max_depth.val = 0 THEN tree_depth1
    ELSE IF max_depth.kind = "int" /\ max_depth.val = 1 THEN tree_depth2to5
    ELSE tree_full

mock_tree(max_depth) ==
    IF max_depth.kind = "int" /\ max_depth.val = 0 THEN tree_depth0
    ELSE IF max_depth.kind = "int" /\ max_depth.val = 1 THEN tree_depth1
    ELSE IF max_depth.kind # "none" /\ max_depth.val <= 5 THEN tree_depth2to5
    ELSE tree_full

(***************************************************************************)
(* Wildcard matching of filter_component (conftest.py 543-555): a pattern  *)
(* that holds '*' or '?' is rewritten into a regular expression            *)
(*   pattern.replace('.', '\\.').replace('*', '.*').replace('?', '.')      *)
(* and handed to re.match between '^' and '$'.  The rewriting touches only *)
(* '.', '*' and '?': any other character of the pattern reaches the        *)
(* regular-expression engine as it is, and '$' is an end-of-text anchor    *)
(* there.  Of the regular-expression metacharacters only '$' is in the     *)
(* model's alphabet.                                                       *)
(***************************************************************************)
regex_token(c) ==
    IF c = "*" THEN [op |-> "anystar", c |-> c]     \* '*' -> '.*'
    ELSE IF c = "?" THEN [op |-> "any", c |-> c]    \* '?' -> '.'
    ELSE IF c = "$" THEN [op |-> "end", c |-> c]    \* left as is: an anchor
    ELSE [op |-> "lit", c |-> c]                    \* '.' -> '\.', others as is

regex_pattern(pattern) == [i \in 1..Len(pattern) |-> regex_token(pattern[i])]

\* re.match("^" + regex + "$", s): does regex[i..] match s[j..] to its end?
RECURSIVE ReMatchFrom(_, _, _, _)
ReMatchFrom(regex, i, s, j) ==
    IF i > Len(regex) THEN j = Len(s) + 1
    ELSE LET t == regex[i] IN
        CASE t.op = "lit" ->
                j <= Len(s) /\ s[j] = t.c /\ ReMatchFrom(regex, i + 1, s, j + 1)
          [] t.op = "any" ->
                j <= Len(s) /\ s[j] # "\n" /\ ReMatchFrom(regex, i + 1, s, j + 1)
          [] t.op = "anystar" ->
                \E k \in j..(Len(s) + 1) :
                    /\ \A m \in j..(k - 1) : s[m] # "\n"
                    /\ ReMatchFrom(regex, i + 1, s, k)
          [] t.op = "end" ->
                j = Len(s) + 1 /\ ReMatchFrom(regex, i + 1, s, j)

re_match(regex, s) == ReMatchFrom(regex, 1, s, 1)

HasChar(s, c) == \E i \in 1..Len(s) : s[i] = c

\* One include pattern against a simple class name (547-555).
matches_pattern(pattern, simpleClass) ==
    IF HasChar(pattern, "*") \/ HasChar(pattern, "?")
    THEN re_match(regex_pattern(pattern), simpleClass)
    ELSE simpleClass = pattern

\* Python truthiness of an Optional[str]: None and "" are false.
Truthy(o) == o.some /\ o.val # <<>>

\* excluded_by_type (531-538): exact comparison with each exclude pattern.
excluded_by_type(comp, q) ==
    /\ Truthy(q.exclude_types)
    /\ \E i \in 1..Len(NonEmptyStrippedList(q.exclude_types.val)) :
           comp.simpleClass = NonEmptyStrippedList(q.exclude_types.val)[i]

\* matches_type (541-555)
matches_type(comp, q) ==
    IF Truthy(q.types)
    THEN \E i \in 1..Len(NonEmptyStrippedList(q.types.val)) :
             matches_pattern(NonEmptyStrippedList(q.types.val)[i], comp.simpleClass)
    ELSE TRUE

\* matches_state (557-564)
matches_state(comp, q) ==
    /\ ~(q.visible_only /\ (~comp.visible \/ ~comp.showing))
    /\ ~(q.enabled_only /\ ~comp.enabled)
    /\ ~(q.focusable_only /\ ~comp.focusable)

\* The component is kept (540, 566-571).
keeps(comp, q) ==
    ~excluded_by_type(comp, q) /\ matches_type(comp, q) /\ matches_state(comp, q)

\* comp_copy: the component without its children, children = [] (569-570).
comp_copy(comp) == [comp EXCEPT !.children = <<>>]

\* filter_component (527-578): the flat, pre-order list of kept components;
\* the children of a component are visited whether it is kept or not.
RECURSIVE filter_component(_, _)
RECURSIVE filter_children(_, _, _)
filter_component_pruning_unmatched(comp, q) ==
    IF keeps(comp, q)
    THEN <<comp_copy(comp)>> \o filter_children(comp.children, 1, q)
    ELSE <<>>

filter_component(comp, q) ==
    (IF keeps(comp, q) THEN <<comp_copy(comp)>> ELSE <<>>)
        \o filter_children(comp.children, 1, q)

filter_children(children, i, q) ==
    IF i > Len(children) THEN <<>>
    ELSE filter_component(children[i], q) \o filter_children(children, i + 1, q)

\* filtered_tree['roots'] (580-584)
filtered_roots(tree, q) == filter_children(tree.roots, 1, q)

(***************************************************************************)
(* Format output (conftest.py 586-616).  The layout whitespace that        *)
(* json.dumps(indent=2) adds is not written out.                           *)
(***************************************************************************)
json_bool(b) == IF b THEN "true" ELSE "false"

json_component(c) ==
    <<"{\"type\": \"">> \o c.type \o <<"\", \"simpleClass\": \"">> \o c.simpleClass
        \o <<"\", \"name\": \"", c.name, "\"">>
        \o (IF c.text # <<>> THEN <<", \"text\": \"", c.text[1], "\"">> ELSE <<>>)
        \o <<", \"visible\": ", json_bool(c.visible),
             ", \"enabled\": ", json_bool(c.enabled),
             ", \"showing\": ", json_bool(c.showing),
             ", \"focusable\": ", json_bool(c.focusable),
             ", \"children\": []}">>

RECURSIVE json_components(_, _)
json_components(roots, i) ==
    IF i > Len(roots) THEN <<>>
    ELSE json_component(roots[i])
            \o (IF i < Len(roots) THEN <<", ">> ELSE <<>>)
            \o json_components(roots, i + 1)

\* json.dumps(filtered_tree, indent=2) (588-590)
format_json(roots) ==
    <<"{\"roots\": [">> \o json_components(roots, 1)
        \o <<"], \"timestamp\": ", "1234567890", "}">>

\* the yaml branch (591-597)
RECURSIVE yaml_components(_, _)
yaml_components(roots, i) ==
    IF i > Len(roots) THEN <<>>
    ELSE <<"  - type: ">> \o roots[i].simpleClass \o <<"\n", "    name: ", roots[i].name, "\n">>
            \o yaml_components(roots, i + 1)

format_yaml(roots) == <<"roots:\n">> \o yaml_components(roots, 1)

\* the xml branch (598-604)
RECURSIVE xml_components(_, _)
xml_components(roots, i) ==
    IF i > Len(roots) THEN <<>>
    ELSE <<"  <component type=\"">> \o roots[i].simpleClass
            \o <<"\" name=\"", roots[i].name, "\" />\n">>
            \o xml_components(roots, i + 1)

format_xml(roots) ==
    <<"<?xml version=\"1.0\" encoding=\"UTF-8\"?>\n<uitree>\n">>
        \o xml_components(roots, 1) \o <<"</uitree>">>

\* component_to_text (606-611); the flat list has no children to indent.
RECURSIVE text_components(_, _)
text_components(roots, i) ==
    IF i > Len(roots) THEN <<>>
    ELSE <<"[">> \o roots[i].simpleClass \o <<"] ", roots[i].name, "\n">>
            \o text_components(roots, i + 1)

format_text(roots) == text_components(roots, 1)

\* The if/elif/else on the format name (587-616): every name that is not
\* exactly "json", "yaml" or "xml" takes the text branch.
format_output(format, roots) ==
    IF format = s_json THEN format_json(roots)
    ELSE IF format = s_yaml THEN format_yaml(roots)
    ELSE IF format = s_xml THEN format_xml(roots)
    ELSE format_text(roots)

(***************************************************************************)
(* Parameter validation (conftest.py 309-324) and the cache key (327).     *)
(***************************************************************************)
\* "ok", or the exception the max_depth check raises (310-314).
validate_max_depth_type_only(max_depth) ==
    IF max_depth.kind \in {"none", "int"} THEN "ok" ELSE "TypeError"

validate_max_depth(max_depth) ==
    IF max_depth.kind = "none" THEN "ok"
    ELSE IF max_depth.kind # "int" THEN "TypeError"
    ELSE IF max_depth.val < 0 THEN "ValueError"
    ELSE "ok"

has_empty_pattern_never(o) == FALSE

\* any(not t for t in [t.strip() for t in s.split(',')]) (317-324)
has_empty_pattern(o) ==
    /\ Truthy(o)
    /\ \E i \in 1..Len(StrippedList(o.val)) : StrippedList(o.val)[i] = <<>>

\* The whole validation block, in the order of the source.
validate(q) ==
    IF validate_max_depth(q.max_depth) # "ok" THEN validate_max_depth(q.max_depth)
    ELSE IF has_empty_pattern(q.types) THEN "ValueError"
    ELSE IF has_empty_pattern(q.exclude_types) THEN "ValueError"
    ELSE "ok"

\* f"unlimited_{format}_{types}_{exclude_types}_{visible_only}_{enabled_only}_{focusable_only}"
cache_key(q) ==
    s_unlimited \o <<"_">> \o q.format \o <<"_">> \o StrOpt(q.types)
        \o <<"_">> \o StrOpt(q.exclude_types) \o <<"_">> \o StrBool(q.visible_only)
        \o <<"_">> \o StrBool(q.enabled_only) \o <<"_">> \o StrBool(q.focusable_only)

\* "if max_depth is None" (328, 619): the cache is used for this call.
uses_cache_always(max_depth) == TRUE

uses_cache(max_depth) == max_depth.kind = "none"

\* "if cache_key in self._tree_cache" (330)
cache_hit_never(key, cache) == FALSE

cache_hit(key, cache) == key \in DOMAIN cache

\* "self._tree_cache[cache_key] = result" (620)
store_only(cache, key, result) == key :> result

store(cache, key, result) == (key :> result) @@ cache

(***************************************************************************)
(* Bounds and the arguments the keywords are called with.                  *)
(***************************************************************************)
MaxCalls == 3      \* keyword calls in one run of the cache machine
MaxDepth == 6      \* largest max_depth argument tried

s_JButton_JTextField == s_JButton \o <<",">> \o s_JTextField
s_JButton__JTextField == s_JButton \o <<",", ",">> \o s_JTextField
s_JStarButton == <<"J","*","B","u","t","t","o","n">>
s_JTextStar == <<"J","T","e","x","t","*">>
s_JQ5 == <<"J","?","?","?","?","?">>
s_JStarDollar == <<"J","*","$">>
s_jbutton == <<"j","b","u","t","t","o","n">>
s_Button == <<"B","u","t","t","o","n">>
s_spaced_JLabel == <<" ">> \o s_JLabel \o <<" ">>
s_JLabel_comma == s_JLabel \o <<",">>

Query(locator, format, max_depth, types, exclude_types, v, e, f) ==
    [locator |-> locator, format |-> format, max_depth |-> max_depth,
     types |-> types, exclude_types |-> exclude_types,
     visible_only |-> v, enabled_only |-> e, focusable_only |-> f]

\* the defaults of the signature (299-306)
NoQuery == Query(None, s_text, DepthNone, None, None, FALSE, FALSE, FALSE)

\* Calls of the cache machine: few formats and filters, so that the same key
\* comes back, with valid, invalid and finite max_depth values.
CacheQueries ==
    { Query(None, fmt, d, t, None, v, FALSE, FALSE) :
        fmt \in {s_json, s_yaml, s_bogus},
        d \in {DepthNone, DepthInt(0), DepthInt(2), DepthInt(-1), DepthStr},
        t \in {None, Some(s_JButton), Some(s_JButton__JTextField)},
        v \in {FALSE} }

\* Calls of the filter engine: every format branch, every max_depth from -1
\* up to MaxDepth and the non-integers, plain and wildcard patterns.
FilterDepths ==
    {DepthNone, DepthStr, DepthFloat} \cup {DepthInt(n) : n \in (-1)..MaxDepth}

FilterTypes ==
    {None, Some(<<>>), Some(s_JButton), Some(s_JButton_JTextField),
     Some(s_JButton__JTextField), Some(s_JStarButton), Some(s_JTextStar),
     Some(s_JQ5), Some(s_JStarDollar), Some(s_jbutton), Some(s_Button),
     Some(s_spaced_JLabel), Some(s_JLabel), Some(s_JPanel)}

FilterExcludes ==
    {None, Some(s_JButton), Some(s_JStarButton), Some(s_JLabel_comma),
     Some(s_JPanel)}

FilterQueries ==
    { Query(None, fmt, d, t, x, v, e, f) :
        fmt \in {s_json, s_yaml, s_xml, s_text},
        d \in FilterDepths, t \in FilterTypes, x \in FilterExcludes,
        v \in BOOLEAN, e \in BOOLEAN, f \in BOOLEAN }

\* What self._lib was called with by a keyword of the wrapper class: the
\* method and the values bound to its parameters.
BackendCall(method, format, max_depth, visible_only) ==
    [method |-> method, format |-> format, max_depth |-> max_depth,
     visible_only |-> visible_only, locator |-> None,
     attempts |-> IF method = "none" THEN 0 ELSE 1, raised |-> FALSE]

NoBackendCall == BackendCall("none", None, DepthNone, FALSE)

\* What a call did to the file it was given: the kind of path it was called
\* with, whether the file exists afterwards and with what content, and
\* whether a directory was created.
File(path, written, content, dir_created) ==
    [path |-> path, written |-> written, content |-> content,
     dir_created |-> dir_created]

NoFile == File("none", FALSE, <<>>, FALSE)

(***************************************************************************)
(* MockSwingLibrary.get_component_tree (conftest.py 297-622).              *)
(***************************************************************************)
\* lookup: line 330 ran; hit: the cached string was returned (334);
\* built: the tree was built and filtered (340-584); stored: line 620 ran;
\* warnings: what the call printed or logged (nothing in this code).
Step(op, q, outcome, error, result, roots, lookup, hit, built, stored) ==
    [op |-> op, q |-> q, outcome |-> outcome, error |-> error,
     result |-> result, roots |-> roots, lookup |-> lookup, hit |-> hit,
     built |-> built, stored |-> stored, warnings |-> <<>>,
     backend |-> NoBackendCall, file |-> NoFile]

NoStep == Step("none", NoQuery, "none", "none", <<>>, <<>>, FALSE, FALSE, FALSE, FALSE)

\* What one call does when the cache is `cache`: the exception raised, or the
\* string returned and the path taken to it.
run(q, cache) ==
    IF validate(q) # "ok"
    THEN Step("get_component_tree", q, "raised", validate(q), <<>>, <<>>,
              FALSE, FALSE, FALSE, FALSE)
    ELSE IF uses_cache(q.max_depth) /\ cache_hit(cache_key(q), cache)
    THEN Step("get_component_tree", q, "returned", "none", cache[cache_key(q)], <<>>,
              TRUE, TRUE, FALSE, FALSE)
    ELSE LET roots == filtered_roots(mock_tree(q.max_depth), q) IN
         Step("get_component_tree", q, "returned", "none",
              format_output(q.format, roots), roots,
              uses_cache(q.max_depth), FALSE, TRUE, uses_cache(q.max_depth))

get_component_tree(q) ==
    /\ calls < MaxCalls
    /\ calls' = calls + 1
    /\ last' = run(q, _tree_cache)
    /\ _tree_call_count' =
         IF last'.lookup
         THEN (cache_key(q) :>
                 ((IF cache_key(q) \in DOMAIN _tree_call_count
                   THEN _tree_call_count[cache_key(q)] ELSE 0) + 1))
              @@ _tree_call_count
         ELSE _tree_call_count
    /\ _tree_cache' =
         IF last'.stored
         THEN store(_tree_cache, cache_key(q), last'.result)
         ELSE _tree_cache
    /\ UNCHANGED <<threads, wait>>

\* MockSwingLibrary.refresh_ui_tree (646-648), reached through
\* Swing.refresh_ui_tree: the body is `pass`.
refresh_ui_tree ==
    /\ calls < MaxCalls
    /\ calls' = calls + 1
    /\ last' = [NoStep EXCEPT !.op = "refresh_ui_tree", !.outcome = "returned"]
    /\ UNCHANGED <<_tree_cache, _tree_call_count, threads, wait>>

\* MockSwingLibrary.save_ui_tree (642-644), reached through
\* Swing.save_ui_tree: the body is `pass`.
save_ui_tree ==
    /\ calls < MaxCalls
    /\ calls' = calls + 1
    /\ last' = [NoStep EXCEPT !.op = "save_ui_tree", !.outcome = "returned"]
    /\ UNCHANGED <<_tree_cache, _tree_call_count, threads, wait>>

(***************************************************************************)
(* Two calls of get_component_tree on one library from two threads.  The   *)
(* code takes no lock; a step is one access to self._tree_call_count or    *)
(* self._tree_cache (each a single dict operation), or the thread-local    *)
(* work between two of them.                                               *)
(***************************************************************************)
Threads == {"t1", "t2"}

\* pc: where the thread is; q: its arguments; n: the count it read (329);
\* result: its local variable `result`; hit, stored: lines 334 and 620 ran.
Thread(pc, q, n, outcome, result, hit, stored) ==
    [pc |-> pc, q |-> q, n |-> n, outcome |-> outcome, result |-> result,
     hit |-> hit, stored |-> stored]

IdleThread == Thread("idle", NoQuery, 0, "none", <<>>, FALSE, FALSE)

local_result_of_other_thread(t, ths) ==
    IF \E u \in Threads \ {t} : ths[u].result # <<>>
    THEN ths[CHOOSE u \in Threads \ {t} : ths[u].result # <<>>].result
    ELSE ths[t].result

\* the value of the local `result` that line 620 writes
local_result(t, ths) == ths[t].result

\* 309-328: the arguments are validated, the key is formed, and the thread
\* goes to the counted, cached path or to the build.
enter(t, q) ==
    /\ threads[t].pc = "idle"
    /\ threads' = [threads EXCEPT ![t] =
           IF validate(q) # "ok"
           THEN Thread("done", q, 0, "raised", <<>>, FALSE, FALSE)
           ELSE Thread(IF uses_cache(q.max_depth) THEN "count_read" ELSE "build",
                       q, 0, "none", <<>>, FALSE, FALSE)]
    /\ UNCHANGED <<_tree_cache, _tree_call_count, last, calls, wait>>

\* 329, right-hand side: self._tree_call_count.get(cache_key, 0)
count_read(t) ==
    /\ threads[t].pc = "count_read"
    /\ threads' = [threads EXCEPT ![t].pc = "count_write",
                                  ![t].n = IF cache_key(threads[t].q) \in DOMAIN _tree_call_count
                                           THEN _tree_call_count[cache_key(threads[t].q)]
                                           ELSE 0]
    /\ UNCHANGED <<_tree_cache, _tree_call_count, last, calls, wait>>

\* 329, assignment: self._tree_call_count[cache_key] = ... + 1
count_write(t) ==
    /\ threads[t].pc = "count_write"
    /\ _tree_call_count' =
           (cache_key(threads[t].q) :> (threads[t].n + 1)) @@ _tree_call_count
    /\ threads' = [threads EXCEPT ![t].pc = "lookup"]
    /\ UNCHANGED <<_tree_cache, last, calls, wait>>

\* 330: if cache_key in self._tree_cache
lookup(t) ==
    /\ threads[t].pc = "lookup"
    /\ threads' = [threads EXCEPT ![t].pc =
           IF cache_hit(cache_key(threads[t].q), _tree_cache)
           THEN "return_cached" ELSE "build"]
    /\ UNCHANGED <<_tree_cache, _tree_call_count, last, calls, wait>>

\* 334: return self._tree_cache[cache_key]; no code removes a key, so the
\* key found at line 330 is still there.
return_cached(t) ==
    /\ threads[t].pc = "return_cached"
    /\ threads' = [threads EXCEPT ![t].pc = "done", ![t].outcome = "returned",
                                  ![t].hit = TRUE,
                                  ![t].result = _tree_cache[cache_key(threads[t].q)]]
    /\ UNCHANGED <<_tree_cache, _tree_call_count, last, calls, wait>>

\* 340-616: the tree is built, filtered and encoded into the local `result`;
\* 618: a call with a finite max_depth returns it at once (622).
build(t) ==
    /\ threads[t].pc = "build"
    /\ threads' = [threads EXCEPT
           ![t].result = format_output(threads[t].q.format,
                             filtered_roots(mock_tree(threads[t].q.max_depth), threads[t].q)),
           ![t].pc = IF uses_cache(threads[t].q.max_depth) THEN "store" ELSE "done",
           ![t].outcome = IF uses_cache(threads[t].q.max_depth) THEN "none" ELSE "returned"]
    /\ UNCHANGED <<_tree_cache, _tree_call_count, last, calls, wait>>

\* 620, 622: self._tree_cache[cache_key] = result; return result
store_result(t) ==
    /\ threads[t].pc = "store"
    /\ _tree_cache' = store(_tree_cache, cache_key(threads[t].q), local_result(t, threads))
    /\ threads' = [threads EXCEPT ![t].pc = "done", ![t].outcome = "returned",
                                  ![t].stored = TRUE]
    /\ UNCHANGED <<_tree_call_count, last, calls, wait>>

s_JLabel_JButton == s_JLabel \o <<"_">> \o s_JButton
s_JButton_JPanel == s_JButton \o <<"_">> \o s_JPanel

\* Calls the two threads make: two formats, the types None and "None" (one
\* key), unlimited, finite and invalid max_depth.
ConcQueries ==
    { Query(None, fmt, d, t, None, FALSE, FALSE, FALSE) :
        fmt \in {s_json, s_yaml},
        d \in {DepthNone, DepthInt(0), DepthInt(-1)},
        t \in {None, Some(s_None)} }

ThreadStep(t) ==
    \/ \E q \in ConcQueries : enter(t, q)
    \/ count_read(t)
    \/ count_write(t)
    \/ lookup(t)
    \/ return_cached(t)
    \/ build(t)
    \/ store_result(t)

NextConc == \E t \in Threads : ThreadStep(t)

\* What one poll of wait_until_element_contains got from the backend.
Read(raised, error, text) == [raised |-> raised, error |-> error, text |-> text]

NoRead == Read(FALSE, "none", <<>>)

\* The locals of Swing.wait_until_element_contains (JavaGui 1100-1132) and the
\* clock it reads, counted in poll intervals.
Wait(pc, locator, text, timeout_val, now, end_time, polls, read, outcome, error) ==
    [pc |-> pc, locator |-> locator, text |-> text, timeout_val |-> timeout_val,
     now |-> now, end_time |-> end_time, polls |-> polls, read |-> read,
     outcome |-> outcome, error |-> error]

IdleWait == Wait("idle", <<>>, <<>>, 0, 0, 0, 0, NoRead, "none", "none")

Init ==
    /\ _tree_cache = [k \in {} |-> <<>>]
    /\ _tree_call_count = [k \in {} |-> 0]
    /\ last = NoStep
    /\ calls = 0
    /\ threads = [t \in Threads |-> IdleThread]
    /\ wait = IdleWait

ExportCall == \E q \in CacheQueries : get_component_tree(q)

Next == ExportCall \/ refresh_ui_tree \/ save_ui_tree

Spec == Init /\ [][Next]_vars

\* Unlimited calls whose keys meet: the types None and the text "None", and
\* type strings that hold the "_" the key is joined with.
KeyQueries ==
    { Query(None, fmt, DepthNone, f[1], f[2], FALSE, FALSE, FALSE) :
        fmt \in {s_json, s_yaml},
        f \in { <<None, None>>, <<Some(s_None), None>>,
                <<Some(s_JLabel_JButton), Some(s_JPanel)>>,
                <<Some(s_JLabel), Some(s_JButton_JPanel)>> } }

KeyCall == \E q \in KeyQueries : get_component_tree(q)

SpecKey == Init /\ [][KeyCall]_vars

\* Every thread that can take a step is scheduled again.
SpecConc == Init /\ [][NextConc]_vars /\ \A t \in Threads : WF_vars(ThreadStep(t))

\* One call of get_component_tree on a fresh library, for every query.
(***************************************************************************)
(* The keyword of the wrapper class, Swing.get_component_tree              *)
(* (src/python/JavaGui/__init__.py 1134-1156, and the same body in         *)
(* src/python/swing_library/__init__.py 1156-1179), over the backend's     *)
(* get_ui_tree (conftest.py 624-636).                                      *)
(***************************************************************************)
ui_tree_json ==
    <<"{\"type\": \"JFrame\", \"name\": \"mainFrame\", \"children\": [{\"type\": \"JPanel\", \"name\": \"contentPane\", \"children\": [{\"type\": \"JButton\", \"name\": \"loginBtn\"}]}]}">>

ui_tree_xml ==
    <<"<component type=\"JFrame\" name=\"mainFrame\"><component type=\"JPanel\" name=\"contentPane\"><component type=\"JButton\" name=\"loginBtn\"/></component></component>">>

ui_tree_text ==
    <<"JFrame [mainFrame]", "\n", "  JPanel [contentPane]", "\n", "    JButton [loginBtn]">>

\* get_ui_tree(format="text", max_depth=None, visible_only=False): format is
\* whatever the caller bound to the first parameter, None included.
get_ui_tree(format, max_depth, visible_only) ==
    IF format = Some(s_json) THEN ui_tree_json
    ELSE IF format = Some(s_xml) THEN ui_tree_xml
    ELSE ui_tree_text

\* "tree_str = self._lib.get_ui_tree(locator); return tree_str": the locator
\* is the only argument and binds to the backend's first parameter.
Swing_get_component_tree(locator, format, max_depth) ==
    [Step("Swing.get_component_tree",
          Query(locator, format, max_depth, None, None, FALSE, FALSE, FALSE),
          "returned", "none", get_ui_tree(locator, DepthNone, FALSE), <<>>,
          FALSE, FALSE, FALSE, FALSE)
     EXCEPT !.backend = BackendCall("get_ui_tree", locator, DepthNone, FALSE)]

\* self._lib.get_ui_tree as the keyword sees it: the string of get_ui_tree,
\* or the error of a backend that has no connection to the application.
backend_get_ui_tree(connected, format, max_depth, visible_only) ==
    IF connected
    THEN [raised |-> FALSE, error |-> "none",
          value |-> get_ui_tree(format, max_depth, visible_only)]
    ELSE [raised |-> TRUE, error |-> "ConnectionError", value |-> <<>>]

Swing_get_component_tree_retrying(connected, locator, format, max_depth) ==
    IF backend_get_ui_tree(connected, locator, DepthNone, FALSE).raised
    THEN [Swing_get_component_tree(locator, format, max_depth) EXCEPT
             !.outcome = "returned", !.result = <<>>,
             !.backend.attempts = 2, !.backend.raised = TRUE]
    ELSE Swing_get_component_tree(locator, format, max_depth)

\* The same keyword on a backend that may fail: the body has no try, no loop
\* and no state of its own, so the error leaves the keyword as it came.
Swing_get_component_tree_on(connected, locator, format, max_depth) ==
    IF backend_get_ui_tree(connected, locator, DepthNone, FALSE).raised
    THEN [Swing_get_component_tree(locator, format, max_depth) EXCEPT
             !.outcome = "raised",
             !.error = backend_get_ui_tree(connected, locator, DepthNone, FALSE).error,
             !.result = <<>>, !.backend.raised = TRUE]
    ELSE Swing_get_component_tree(locator, format, max_depth)

s_JPanel_main == s_JPanel \o <<"#","m","a","i","n">>

KeywordLocators == {None, Some(<<>>), Some(s_JPanel_main), Some(s_json), Some(s_xml)}

KeywordCall ==
    /\ calls = 0
    /\ \E locator \in KeywordLocators, format \in {s_text, s_json, s_xml, s_yaml},
          max_depth \in FilterDepths, connected \in BOOLEAN :
           /\ calls' = calls + 1
           /\ last' = Swing_get_component_tree_on(connected, locator, format, max_depth)
           /\ UNCHANGED <<_tree_cache, _tree_call_count, threads, wait>>

\* Swing.save_ui_tree(filename, locator=None) (JavaGui 863-874): the
\* signature has no format and no max_depth, so a call that passes them by
\* keyword raises TypeError when the arguments are bound; otherwise the body
\* is "self._lib.save_ui_tree(filename, locator)", and the backend's
\* save_ui_tree (conftest.py 642-644) is `pass`: nothing is opened or written.
Swing_save_ui_tree(path, with_format_args, format, max_depth) ==
    IF with_format_args
    THEN [Step("Swing.save_ui_tree",
               Query(None, format, max_depth, None, None, FALSE, FALSE, FALSE),
               "raised", "TypeError", <<>>, <<>>, FALSE, FALSE, FALSE, FALSE)
          EXCEPT !.file = File(path, FALSE, <<>>, FALSE)]
    ELSE [Step("Swing.save_ui_tree", NoQuery,
               "returned", "none", <<>>, <<>>, FALSE, FALSE, FALSE, FALSE)
          EXCEPT !.file = File(path, FALSE, <<>>, FALSE),
                 !.backend = [NoBackendCall EXCEPT !.method = "save_ui_tree",
                                                   !.attempts = 1]]

\* Paths a tree is saved to: in an existing writable directory, under a
\* directory that does not exist, in a read-only directory.
SavePaths == {"writable", "missing_parent", "read_only"}

SaveKeywordCall ==
    /\ calls = 0
    /\ \E path \in SavePaths, with_format_args \in BOOLEAN,
          format \in {s_text, s_json, s_xml, s_yaml},
          max_depth \in {DepthNone} \cup {DepthInt(n) : n \in 0..MaxDepth} :
           /\ ~with_format_args => (format = s_text /\ max_depth = DepthNone)
           /\ calls' = calls + 1
           /\ last' = Swing_save_ui_tree(path, with_format_args, format, max_depth)
           /\ UNCHANGED <<_tree_cache, _tree_call_count, threads, wait>>

(***************************************************************************)
(* The keywords that take a locator (JavaGui 280-440, 764-785, 1187-1210)  *)
(* over the backend's element lookup (conftest.py 79-177).                 *)
(***************************************************************************)
\* MockSwingLibrary._setup_default_elements (79-106), in insertion order
_elements ==
    <<
       [key |-> <<"J","B","u","t","t","o","n","#","l","o","g","i","n","B","t","n">>,
        name |-> <<"l","o","g","i","n","B","t","n">>, text |-> Some(<<"L","o","g","i","n">>)],
       [key |-> <<"J","T","e","x","t","F","i","e","l","d","#","u","s","e","r","n","a","m","e">>,
        name |-> <<"u","s","e","r","n","a","m","e">>, text |-> Some(<<>>)],
       [key |-> <<"J","P","a","s","s","w","o","r","d","F","i","e","l","d","#","p","a","s","s","w","o","r","d">>,
        name |-> <<"p","a","s","s","w","o","r","d">>, text |-> Some(<<>>)],
       [key |-> <<"J","T","a","b","l","e","#","d","a","t","a","T","a","b","l","e">>,
        name |-> <<"d","a","t","a","T","a","b","l","e">>, text |-> None],
       [key |-> <<"J","T","r","e","e","#","f","i","l","e","T","r","e","e">>,
        name |-> <<"f","i","l","e","T","r","e","e">>, text |-> None],
       [key |-> <<"J","L","a","b","e","l","#","s","t","a","t","u","s","L","a","b","e","l">>,
        name |-> <<"s","t","a","t","u","s","L","a","b","e","l">>, text |-> Some(<<"R","e","a","d","y">>)]
    >>

Contains(s, sub) ==
    \E i \in 0..(Len(s) - Len(sub)) : SubSeq(s, i + 1, i + Len(sub)) = sub

EndsWith(s, suffix) ==
    Len(s) >= Len(suffix) /\ SubSeq(s, Len(s) - Len(suffix) + 1, Len(s)) = suffix

\* "locator in key or (elem.name and locator.endswith(f'#{elem.name}'))"
element_matches(locator, elem) ==
    \/ Contains(elem.key, locator)
    \/ elem.name # <<>> /\ EndsWith(locator, <<"#">> \o elem.name)

\* find_element (150-159): the element stored under the locator, else the
\* first element that matches, else ElementNotFoundError.
find_element(locator) ==
    IF \E i \in 1..Len(_elements) : _elements[i].key = locator
    THEN [found |-> TRUE,
          index |-> CHOOSE i \in 1..Len(_elements) : _elements[i].key = locator]
    ELSE IF \E i \in 1..Len(_elements) : element_matches(locator, _elements[i])
    THEN [found |-> TRUE,
          index |-> CHOOSE i \in 1..Len(_elements) :
                        /\ element_matches(locator, _elements[i])
                        /\ \A j \in 1..(i - 1) : ~element_matches(locator, _elements[j])]
    ELSE [found |-> FALSE, index |-> 0]

\* find_elements (161-174): the indices of the elements returned
find_elements(locator) ==
    IF \E i \in 1..Len(_elements) : _elements[i].key = locator
    THEN <<CHOOSE i \in 1..Len(_elements) : _elements[i].key = locator>>
    ELSE SelectSeq([i \in 1..Len(_elements) |-> i],
                   LAMBDA i : element_matches(locator, _elements[i]))

ElementNames(indices) == [k \in 1..Len(indices) |-> _elements[indices[k]].name]

\* The locator the keyword hands to self._lib: its own argument, except for
\* select_from_list, which sends f"{locator}[text='{value}']" (1209).
backend_locator(keyword, locator, value) ==
    IF keyword = "Swing.select_from_list"
    THEN locator \o <<"[","t","e","x","t","=","'">> \o value \o <<"'","]">>
    ELSE locator

backend_method(keyword) ==
    CASE keyword = "Swing.find_element" -> "find_element"
      [] keyword = "Swing.find_elements" -> "find_elements"
      [] keyword = "Swing.click_element" -> "click_element"
      [] keyword = "Swing.click_button" -> "click_button"
      [] keyword = "Swing.input_text" -> "input_text"
      [] keyword = "Swing.get_element_text" -> "get_element_text"
      [] keyword = "Swing.select_from_list" -> "click_element"

LocatorKeywords ==
    {"Swing.find_element", "Swing.find_elements", "Swing.click_element",
     "Swing.click_button", "Swing.input_text", "Swing.get_element_text",
     "Swing.select_from_list"}

\* Each keyword's body is the one call on self._lib; the backend methods
\* but find_elements go through find_element (179-201, 294-295).
Swing_locator_keyword(keyword, locator, value) ==
    LET sent == backend_locator(keyword, locator, value)
        q == [NoQuery EXCEPT !.locator = Some(locator)]
        call == [BackendCall(backend_method(keyword), None, DepthNone, FALSE)
                    EXCEPT !.locator = Some(sent)]
    IN  IF keyword = "Swing.find_elements"
        THEN [Step(keyword, q, "returned", "none", ElementNames(find_elements(sent)),
                   <<>>, FALSE, FALSE, FALSE, FALSE) EXCEPT !.backend = call]
        ELSE IF find_element(sent).found
        THEN [Step(keyword, q, "returned", "none",
                   <<_elements[find_element(sent).index].name>>,
                   <<>>, FALSE, FALSE, FALSE, FALSE) EXCEPT !.backend = call]
        ELSE [Step(keyword, q, "raised", "ElementNotFoundError", <<>>,
                   <<>>, FALSE, FALSE, FALSE, FALSE) EXCEPT !.backend = call]

s_loginBtn_locator == s_JButton \o <<"#","l","o","g","i","n","B","t","n">>
s_statusLabel_locator == <<"#","s","t","a","t","u","s","L","a","b","e","l">>
s_JDialog_error == <<"J","D","i","a","l","o","g","#","e","r","r","o","r">>
s_blank == <<" "," "," ">>

ElementLocators ==
    {<<>>, s_blank, s_loginBtn_locator, s_statusLabel_locator, s_JDialog_error, s_JLabel}

LocatorKeywordCall ==
    /\ calls = 0
    /\ \E keyword \in LocatorKeywords, locator \in ElementLocators,
          value \in {<<"i","t","e","m">>} :
           /\ calls' = calls + 1
           /\ last' = Swing_locator_keyword(keyword, locator, value)
           /\ UNCHANGED <<_tree_cache, _tree_call_count, threads, wait>>

\* self._lib.find_elements as the keyword sees it: the elements find_elements
\* returns, or the error of a backend that has no connection to the
\* application.
backend_find_elements(connected, locator) ==
    IF connected
    THEN [raised |-> FALSE, error |-> "none", value |-> find_elements(locator)]
    ELSE [raised |-> TRUE, error |-> "ConnectionError", value |-> <<>>]

\* Swing.element_should_not_exist (JavaGui 1040-1060):
\* "try: elements = self._lib.find_elements(locator);
\*       if elements: raise AssertionError(...)
\*  except AssertionError: raise
\*  except Exception: pass"
Swing_element_should_not_exist(connected, locator) ==
    LET found == backend_find_elements(connected, locator)
        q == [NoQuery EXCEPT !.locator = Some(locator)]
        call == [BackendCall("find_elements", None, DepthNone, FALSE)
                    EXCEPT !.locator = Some(locator), !.raised = found.raised]
    IN  IF ~found.raised /\ found.value # <<>>
        THEN [Step("Swing.element_should_not_exist", q, "raised", "AssertionError",
                   ElementNames(found.value), <<>>, FALSE, FALSE, FALSE, FALSE)
                 EXCEPT !.backend = call]
        ELSE [Step("Swing.element_should_not_exist", q, "returned", "none",
                   <<>>, <<>>, FALSE, FALSE, FALSE, FALSE)
                 EXCEPT !.backend = call]

ShouldNotExistCall ==
    /\ calls = 0
    /\ \E locator \in ElementLocators, connected \in BOOLEAN :
           /\ calls' = calls + 1
           /\ last' = Swing_element_should_not_exist(connected, locator)
           /\ UNCHANGED <<_tree_cache, _tree_call_count, threads, wait>>

\* MockSwingLibrary.get_element_text: "return self.find_element(locator).text
\* or ''"; find_element raises ElementNotFoundError when nothing matches.
get_element_text(locator) ==
    LET found == find_element(locator) IN
    IF ~found.found
    THEN Read(TRUE, "ElementNotFoundError", <<>>)
    ELSE LET text == _elements[found.index].text IN
         Read(FALSE, "none", IF text.some THEN text.val ELSE <<>>)

\* time.sleep(poll_interval) with poll_interval = 0.5: the unit of the clock.
poll_interval == 1

\* Largest timeout, in poll intervals, and the most the clock moves between
\* two statements beyond what the code asks for.
MaxTimeout == 3
MaxDelay == 1

s_Ready == <<"R","e","a","d","y">>
s_Done == <<"D","o","n","e">>
s_ea == <<"e","a">>

\* What a poll can get while the application runs: the element's text as the
\* backend holds it, a text the application has set since, or a failure of
\* the call (element not found, connection lost).
PollReads(locator) ==
    {get_element_text(locator), Read(FALSE, "none", s_Done),
     Read(TRUE, "ConnectionError", <<>>)}

\* The try block of the loop with a poll error let through instead of caught.
after_poll_escaping(read, text) ==
    IF read.raised THEN "raise"
    ELSE IF Contains(read.text, text) THEN "return"
    ELSE "sleep"

\* "try: actual_text = ...; if text in actual_text: return
\*  except Exception: pass" and then the sleep.
after_poll(read, text) ==
    IF read.raised THEN "sleep"
    ELSE IF Contains(read.text, text) THEN "return"
    ELSE "sleep"

\* "timeout_val = timeout if timeout is not None else self._timeout;
\*  end_time = time.time() + timeout_val"
wait_start ==
    /\ wait.pc = "idle"
    /\ \E locator \in {s_statusLabel_locator, s_JDialog_error},
          text \in {s_Done, s_ea, <<>>},
          timeout \in {None} \cup {[some |-> TRUE, val |-> v] : v \in -1..MaxTimeout},
          _timeout \in {0, MaxTimeout} :
           LET timeout_val == IF timeout.some THEN timeout.val ELSE _timeout IN
           wait' = Wait("check", locator, text, timeout_val, wait.now,
                        wait.now + timeout_val, 0, NoRead, "none", "none")
    /\ UNCHANGED <<_tree_cache, _tree_call_count, last, calls, threads>>

\* "while time.time() < end_time" and, when it fails, "raise TimeoutError".
wait_check ==
    /\ wait.pc = "check"
    /\ \E d \in 0..MaxDelay :
           LET now == wait.now + d IN
           wait' = IF now < wait.end_time
                   THEN [wait EXCEPT !.pc = "poll", !.now = now]
                   ELSE [wait EXCEPT !.pc = "done", !.now = now,
                                     !.outcome = "raised", !.error = "TimeoutError"]
    /\ UNCHANGED <<_tree_cache, _tree_call_count, last, calls, threads>>

\* One pass of the try block.
wait_poll ==
    /\ wait.pc = "poll"
    /\ \E read \in PollReads(wait.locator), d \in 0..MaxDelay :
           LET then == after_poll(read, wait.text)
               polled == [wait EXCEPT !.read = read, !.polls = wait.polls + 1,
                                      !.now = wait.now + d]
           IN wait' = CASE then = "return" ->
                               [polled EXCEPT !.pc = "done", !.outcome = "returned"]
                        [] then = "raise" ->
                               [polled EXCEPT !.pc = "done", !.outcome = "raised",
                                              !.error = read.error]
                        [] OTHER -> [polled EXCEPT !.pc = "sleep"]
    /\ UNCHANGED <<_tree_cache, _tree_call_count, last, calls, threads>>

\* "time.sleep(poll_interval)"
wait_sleep ==
    /\ wait.pc = "sleep"
    /\ \E d \in 0..MaxDelay :
           wait' = [wait EXCEPT !.pc = "check", !.now = wait.now + poll_interval + d]
    /\ UNCHANGED <<_tree_cache, _tree_call_count, last, calls, threads>>

WaitNext == wait_start \/ wait_check \/ wait_poll \/ wait_sleep

\* The call is the only thread of its process: its next statement is run.
SpecWait == Init /\ [][WaitNext]_vars /\ WF_vars(WaitNext)

KeywordNext ==
    KeywordCall \/ SaveKeywordCall \/ LocatorKeywordCall \/ ShouldNotExistCall

SpecKeyword == Init /\ [][KeywordNext]_vars

FilterCall == calls = 0 /\ \E q \in FilterQueries : get_component_tree(q)

SpecFilter == Init /\ [][FilterCall]_vars

(***************************************************************************)
(* Notions of the specification used to state the claims.                  *)
(***************************************************************************)
IsExport(step) == step.op = "get_component_tree"
Returned(step) == step.outcome = "returned"
Unlimited(step) == step.q.max_depth = DepthNone
Finite(step) == step.q.max_depth.kind = "int" /\ step.q.max_depth.val >= 0

\* Format names the Validator accepts (section 4.1), compared without case;
\* of the upper-case spellings the model's alphabet holds "YAML".
s_yml == <<"y","m","l">>
s_md == <<"m","d">>
s_markdown == <<"m","a","r","k","d","o","w","n">>
RecognizedFormat(format) ==
    format \in {s_json, s_xml, s_yaml, s_csv, s_markdown, s_text, s_yml, s_md, s_YAML}

\* A query the Validator of section 4.1 rejects.
ValidatorRejects(q) ==
    \/ q.max_depth.kind \in {"str", "float"}
    \/ q.max_depth.kind = "int" /\ q.max_depth.val < 0
    \/ has_empty_pattern(q.types)
    \/ has_empty_pattern(q.exclude_types)
    \/ ~RecognizedFormat(q.format)

(***************************************************************************)
(* C1: every cache entry is written by a completed export whose max_depth  *)
(* is None, and an export with a finite max_depth neither looks the cache  *)
(* up, nor returns a cached string, nor changes the cache, even when an    *)
(* entry exists under its key.                                             *)
(***************************************************************************)
C1_CacheOnlyForUnlimitedDepth ==
    [][ /\ (IsExport(last') /\ ~Unlimited(last'))
            => /\ ~last'.lookup /\ ~last'.hit /\ ~last'.stored
               /\ _tree_cache' = _tree_cache
               /\ _tree_call_count' = _tree_call_count
               /\ Returned(last') => last'.built
        /\ (_tree_cache' # _tree_cache)
            => /\ IsExport(last') /\ Returned(last') /\ Unlimited(last')
               /\ _tree_cache' =
                    (cache_key(last'.q) :> last'.result) @@ _tree_cache
      ]_vars

\* A finite-depth export returned while an entry was cached under its key,
\* and the cached string differs from what it returned.
C1_Witness ==
    /\ IsExport(last) /\ Returned(last) /\ Finite(last)
    /\ cache_key(last.q) \in DOMAIN _tree_cache
    /\ _tree_cache[cache_key(last.q)] # last.result

(***************************************************************************)
(* C2: after refresh_ui_tree (invalidateCache) the cache holds no entry,   *)
(* and the next unlimited-depth export builds the tree again instead of    *)
(* returning a string stored before the invalidation.                      *)
(***************************************************************************)
C2_InvalidateEmptiesCache ==
    [][ /\ (last'.op = "refresh_ui_tree") => DOMAIN _tree_cache' = {}
        /\ (last.op = "refresh_ui_tree" /\ IsExport(last') /\ Returned(last')
                /\ Unlimited(last'))
            => last'.built /\ ~last'.hit
      ]_vars

(***************************************************************************)
(* C3: of two consecutive unlimited-depth exports with the same arguments  *)
(* the second returns the same string as the first and is answered from    *)
(* the cache: no tree is built, filtered or encoded.                       *)
(***************************************************************************)
C3_SecondExportIsCacheHit ==
    [][ (/\ IsExport(last) /\ Returned(last) /\ Unlimited(last)
         /\ IsExport(last') /\ last'.q = last.q /\ calls' = calls + 1)
            => /\ Returned(last') /\ last'.result = last.result
               /\ last'.hit /\ ~last'.built /\ ~last'.stored
      ]_vars

\* The second of two calls was answered from the cache with a non-empty string.
C3_Witness ==
    /\ calls = 2 /\ IsExport(last) /\ last.hit /\ last.result # <<>>
    /\ _tree_call_count[cache_key(last.q)] = 2

(***************************************************************************)
(* C4: a query the Validator rejects (bad max_depth, empty pattern entry,  *)
(* unrecognized format) fails before any cache lookup and before the tree  *)
(* is fetched, returns no cached string and changes no cache entry.        *)
(***************************************************************************)
C4_RejectedBeforeCacheAndFetch ==
    [][ (IsExport(last') /\ ValidatorRejects(last'.q) /\ calls' = calls + 1)
            => /\ last'.outcome = "raised"
               /\ ~last'.lookup /\ ~last'.hit /\ ~last'.built
               /\ _tree_cache' = _tree_cache
      ]_vars

(***************************************************************************)
(* C5: once an unlimited-depth export has stored a string under a key,     *)
(* every later unlimited-depth export with that key returns the stored     *)
(* string without building the tree, and no operation other than           *)
(* refresh_ui_tree removes or replaces an entry.                           *)
(***************************************************************************)
C5_StoredEntryServedUntilInvalidated ==
    [][ /\ (last'.op # "refresh_ui_tree")
            => \A k \in DOMAIN _tree_cache :
                   k \in DOMAIN _tree_cache' /\ _tree_cache'[k] = _tree_cache[k]
        /\ (/\ IsExport(last') /\ Returned(last') /\ Unlimited(last')
            /\ calls' = calls + 1
            /\ cache_key(last'.q) \in DOMAIN _tree_cache)
            => /\ last'.hit /\ ~last'.built
               /\ last'.result = _tree_cache[cache_key(last'.q)]
      ]_vars

\* An entry stored by the first call is served by the third, after a call
\* that stored another entry in between.
C5_Witness ==
    /\ calls = 3 /\ IsExport(last) /\ last.hit
    /\ Cardinality(DOMAIN _tree_cache) = 2
    /\ _tree_call_count[cache_key(last.q)] = 2

(***************************************************************************)
(* The snapshot of the inspected application is the full tree; a node's    *)
(* path is the list of sibling indices that leads to it (section 3).       *)
(***************************************************************************)
RECURSIVE LocatedForest(_, _, _)
LocatedForest(children, i, prefix) ==
    IF i > Len(children) THEN <<>>
    ELSE <<[path |-> Append(prefix, i - 1), comp |-> comp_copy(children[i])]>>
            \o LocatedForest(children[i].children, 1, Append(prefix, i - 1))
            \o LocatedForest(children, i + 1, prefix)

\* Every node of a tree in pre-order, with its path, children cleared.
Located(tree) == LocatedForest(tree.roots, 1, <<>>)

SnapshotNodes == Located(tree_full)

PathsOf(node) ==
    {SnapshotNodes[i].path : i \in {j \in 1..Len(SnapshotNodes) : SnapshotNodes[j].comp = node}}

\* Depth of the snapshot's deepest node (a root has depth 0).
SnapshotDepth ==
    CHOOSE d \in 0..Len(SnapshotNodes) :
        /\ \E i \in 1..Len(SnapshotNodes) : Len(SnapshotNodes[i].path) = d + 1
        /\ \A i \in 1..Len(SnapshotNodes) : Len(SnapshotNodes[i].path) <= d + 1

\* The glob of section 4.2: '*' is any run of characters, '?' exactly one,
\* every other character stands for itself; the whole name must match.
RECURSIVE GlobFrom(_, _, _, _)
GlobFrom(p, i, s, j) ==
    IF i > Len(p) THEN j = Len(s) + 1
    ELSE IF p[i] = "*" THEN \E k \in j..(Len(s) + 1) : GlobFrom(p, i + 1, s, k)
    ELSE IF p[i] = "?" THEN j <= Len(s) /\ GlobFrom(p, i + 1, s, j + 1)
    ELSE j <= Len(s) /\ s[j] = p[i] /\ GlobFrom(p, i + 1, s, j + 1)

GlobMatch(p, s) == GlobFrom(p, 1, s, 1)

\* The patterns of a comma-separated list, and "some pattern matches".
Patterns(o) == IF Truthy(o) THEN NonEmptyStrippedList(o.val) ELSE <<>>
GlobAny(o, name) == \E i \in 1..Len(Patterns(o)) : GlobMatch(Patterns(o)[i], name)

NoStateFilter(q) == ~q.visible_only /\ ~q.enabled_only /\ ~q.focusable_only

(***************************************************************************)
(* C6: with a finite max_depth d every node of the result is a node of the *)
(* snapshot whose path has at most d + 1 segments, whatever the type and   *)
(* state filters.                                                          *)
(***************************************************************************)
C6_ResultWithinDepthLimit ==
    (IsExport(last) /\ Returned(last) /\ Finite(last))
        => \A i \in 1..Len(last.roots) :
               /\ PathsOf(last.roots[i]) # {}
               /\ \A path \in PathsOf(last.roots[i]) :
                      Len(path) <= last.q.max_depth.val + 1

\* A filtered export with max_depth 2 returned a node at depth 2.
C6_Witness ==
    /\ IsExport(last) /\ Returned(last) /\ last.q.max_depth = DepthInt(2)
    /\ Truthy(last.q.types) /\ last.q.enabled_only
    /\ \E i \in 1..Len(last.roots) :
           \E path \in PathsOf(last.roots[i]) : Len(path) = 3

(***************************************************************************)
(* C7: a finite max_depth that is at least the depth of the snapshot's     *)
(* deepest node yields as many components as the same query with           *)
(* max_depth None.                                                         *)
(***************************************************************************)
C7_LargeDepthEqualsUnlimited ==
    (/\ IsExport(last) /\ Returned(last) /\ Finite(last)
     /\ last.q.max_depth.val >= SnapshotDepth)
        => Len(last.roots) =
               Len(run([last.q EXCEPT !.max_depth = DepthNone],
                       [k \in {} |-> <<>>]).roots)

(***************************************************************************)
(* C8: with max_depth 0 the result is exactly the snapshot's roots that    *)
(* pass the filters, in order, and no node of it has children.             *)
(***************************************************************************)
C8_DepthZeroRootsOnly ==
    (IsExport(last) /\ Returned(last) /\ last.q.max_depth = DepthInt(0))
        => /\ \A i \in 1..Len(last.roots) :
                  /\ last.roots[i].children = <<>>
                  /\ PathsOf(last.roots[i]) # {}
                  /\ \A path \in PathsOf(last.roots[i]) : Len(path) = 1
           /\ last.roots =
                  SelectSeq([i \in 1..Len(tree_full.roots) |-> comp_copy(tree_full.roots[i])],
                            LAMBDA c : keeps(c, last.q))

\* An export with max_depth 0 returned the root.
C8_Witness ==
    /\ IsExport(last) /\ Returned(last) /\ last.q.max_depth = DepthInt(0)
    /\ Len(last.roots) = 1 /\ last.roots[1].name = "mainFrame"

(***************************************************************************)
(* C9: a node whose simple type name matches an include pattern and an     *)
(* exclude pattern is not in the result; when a type string is in both     *)
(* lists the call emits a warning, does not raise and returns a result.    *)
(***************************************************************************)
InBothLists(q) ==
    \E i \in 1..Len(Patterns(q.types)) : \E j \in 1..Len(Patterns(q.exclude_types)) :
        Patterns(q.types)[i] = Patterns(q.exclude_types)[j]

C9_ExcludeWinsWithWarning ==
    IsExport(last)
        => /\ Returned(last) =>
                \A i \in 1..Len(last.roots) :
                    ~(/\ GlobAny(last.q.types, last.roots[i].simpleClass)
                      /\ GlobAny(last.q.exclude_types, last.roots[i].simpleClass))
           /\ (InBothLists(last.q) /\ ~ValidatorRejects(last.q))
                => Returned(last) /\ last.warnings # <<>>

(***************************************************************************)
(* C10: an include pattern keeps a node exactly when the pattern, read as  *)
(* a glob ('*' any run, '?' one character, anchored, case-sensitive),      *)
(* matches the node's whole simple type name: with no exclude list and no  *)
(* state filter the result is the visited nodes some pattern matches.      *)
(***************************************************************************)
C10_IncludeIsAnchoredGlob ==
    (/\ IsExport(last) /\ Returned(last) /\ Truthy(last.q.types)
     /\ ~Truthy(last.q.exclude_types) /\ NoStateFilter(last.q))
        => last.roots =
               SelectSeq([i \in 1..Len(Located(mock_tree(last.q.max_depth))) |->
                              Located(mock_tree(last.q.max_depth))[i].comp],
                         LAMBDA c : GlobAny(last.q.types, c.simpleClass))

(***************************************************************************)
(* The filter of section 4.2, read from the specification: exclude and     *)
(* include patterns are globs, exclude wins, then the state predicates.    *)
(***************************************************************************)
StatePredicatesHold(c, q) ==
    /\ q.visible_only => (c.visible /\ c.showing)
    /\ q.enabled_only => c.enabled
    /\ q.focusable_only => c.focusable

TypeFiltersPass(c, q) ==
    /\ ~GlobAny(q.exclude_types, c.simpleClass)
    /\ Truthy(q.types) => GlobAny(q.types, c.simpleClass)

PassesFilters(c, q) == TypeFiltersPass(c, q) /\ StatePredicatesHold(c, q)

\* The nodes the call visited, in pre-order, children cleared.
Visited(q) ==
    [i \in 1..Len(Located(mock_tree(q.max_depth))) |->
        Located(mock_tree(q.max_depth))[i].comp]

InSeq(x, seq) == \E i \in 1..Len(seq) : seq[i] = x

(***************************************************************************)
(* C11: exclude patterns are globs like include patterns: no node whose    *)
(* simple type name matches an exclude pattern, wildcard patterns          *)
(* included, is in the result.                                             *)
(***************************************************************************)
C11_ExcludeIsGlob ==
    (IsExport(last) /\ Returned(last))
        => \A i \in 1..Len(last.roots) :
               ~GlobAny(last.q.exclude_types, last.roots[i].simpleClass)

(***************************************************************************)
(* C12: the result is exactly the visited nodes that pass the type filters *)
(* and every active state predicate (visible_only: visible and showing;    *)
(* enabled_only: enabled; focusable_only: focusable), none left out.       *)
(***************************************************************************)
C12_ResultIsExactlyThePassingNodes ==
    (IsExport(last) /\ Returned(last))
        => last.roots = SelectSeq(Visited(last.q), LAMBDA c : PassesFilters(c, last.q))

(***************************************************************************)
(* C13: every node of the result has its children cleared, and a visited   *)
(* node that passes the filters is in the result whether or not its        *)
(* ancestors pass them.                                                    *)
(***************************************************************************)
C13_FlatResultReachesNestedMatches ==
    (IsExport(last) /\ Returned(last))
        => /\ \A i \in 1..Len(last.roots) : last.roots[i].children = <<>>
           /\ \A i \in 1..Len(Visited(last.q)) :
                  PassesFilters(Visited(last.q)[i], last.q)
                      => InSeq(Visited(last.q)[i], last.roots)

\* The button at depth 2 is in the result although neither the frame nor the
\* panel above it passes the type filter.
C13_Witness ==
    /\ IsExport(last) /\ Returned(last) /\ last.q.types = Some(s_JButton)
    /\ Len(last.roots) = 1 /\ last.roots[1].name = "loginBtn"
    /\ last.roots[1].children = <<>>
    /\ ~PassesFilters(comp_copy(c_mainFrame(<<>>)), last.q)
    /\ ~PassesFilters(comp_copy(c_contentPane(<<>>)), last.q)

\* A pattern list with an empty field between commas, as the text is split.
SplitHasEmpty(o) ==
    o.some /\ \E i \in 1..Len(split(o.val)) : split(o.val)[i] = <<>>

\* A non-empty pattern list with an empty or blank field.
HasEmptyEntry(o) ==
    /\ o.some /\ o.val # <<>>
    /\ \E i \in 1..Len(split(o.val)) :
           \A j \in 1..Len(split(o.val)[i]) : IsSpace(split(o.val)[i][j])

FormatNames ==
    {s_json, s_xml, s_yaml, s_text, s_csv, s_YAML, s_yml, s_md, s_markdown, s_bogus}

FormatQueries ==
    { Query(None, fmt, d, t, None, v, e, FALSE) :
        fmt \in FormatNames,
        d \in {DepthNone, DepthInt(0), DepthInt(2)},
        t \in {None, Some(s_JButton)},
        v \in BOOLEAN, e \in BOOLEAN }

FormatCall == calls = 0 /\ \E q \in FormatQueries : get_component_tree(q)

SpecFormat == Init /\ [][FormatCall]_vars

\* The name a format name stands for: lower case, alias resolved.
CanonicalFormat(format) ==
    IF format \in {s_YAML, s_yml} THEN s_yaml
    ELSE IF format = s_md THEN s_markdown
    ELSE format

(***************************************************************************)
(* C16: an export whose format name is none of json, xml, yaml, csv,       *)
(* markdown, text, yml, md (in any letter case) raises FormatError before  *)
(* the tree is traversed and returns no string.                            *)
(***************************************************************************)
C16_UnknownFormatRaisesFormatError ==
    (IsExport(last) /\ ~RecognizedFormat(last.q.format))
        => /\ last.outcome = "raised" /\ last.error = "FormatError"
           /\ ~last.built /\ last.result = <<>>

(***************************************************************************)
(* C17: an export whose format name is a recognized name in another letter *)
(* case, or the alias yml or md, succeeds and returns the string the same  *)
(* export returns under the canonical name.                                *)
(***************************************************************************)
C17_FormatNameCaseAndAliasEquivalent ==
    (IsExport(last) /\ RecognizedFormat(last.q.format))
        => /\ Returned(last)
           /\ last.result =
                  run([last.q EXCEPT !.format = CanonicalFormat(last.q.format)],
                      [k \in {} |-> <<>>]).result

IsKeyword(step) == step.op = "Swing.get_component_tree"

(***************************************************************************)
(* C18: the keyword called with a non-empty locator returns the string the *)
(* same call returns with the locator omitted, and emits a deprecation     *)
(* notice without failing.                                                 *)
(***************************************************************************)
C18_LocatorIgnoredWithNotice ==
    (IsKeyword(last) /\ Truthy(last.q.locator))
        => /\ Returned(last)
           /\ last.result =
                  Swing_get_component_tree(None, last.q.format, last.q.max_depth).result
           /\ InSeq("DeprecationWarning", last.warnings)

(***************************************************************************)
(* C19: the keyword calls the backend's get_component_tree with the        *)
(* format and max_depth it was called with, the filters at the values      *)
(* given (None, None, False, ... by default); what the backend receives as *)
(* format is the caller's format, never the locator.                       *)
(***************************************************************************)
C19_KeywordForwardsItsArguments ==
    IsKeyword(last)
        => /\ last.backend.method = "get_component_tree"
           /\ last.backend.format = Some(last.q.format)
           /\ last.backend.max_depth = last.q.max_depth
           /\ last.backend.visible_only = last.q.visible_only

\* The string one export of q, alone on a fresh library, returns and stores.
Sequential(q) == run(q, [k \in {} |-> <<>>]).result

AllDone == \A t \in Threads : threads[t].pc = "done"

\* Both threads run the same valid, unlimited query.
SameUnlimitedQuery ==
    /\ \A t, u \in Threads : threads[t].q = threads[u].q
    /\ \A t \in Threads : /\ threads[t].pc # "idle"
                          /\ threads[t].q.max_depth = DepthNone
                          /\ validate(threads[t].q) = "ok"

C20_CacheHoldsWholeResults ==
    /\ \A k \in DOMAIN _tree_cache :
           \E t \in Threads :
               /\ threads[t].pc # "idle" /\ cache_key(threads[t].q) = k
               /\ _tree_cache[k] = Sequential(threads[t].q)
    /\ (SameUnlimitedQuery /\ AllDone)
           => \A t \in Threads :
                  /\ threads[t].outcome = "returned"
                  /\ threads[t].result = Sequential(threads[t].q)
                  /\ cache_key(threads[t].q) \in DOMAIN _tree_cache
                  /\ _tree_cache[cache_key(threads[t].q)] = Sequential(threads[t].q)

(***************************************************************************)
(* C20: two exports running concurrently both complete; at every moment    *)
(* each cache entry is the whole string a sequential export stores under   *)
(* its key, never a partial or mixed value; and when the two have the same *)
(* query with max_depth None, both return, and the cache is left holding,  *)
(* the string one sequential export of that query returns and stores, also *)
(* when both missed and both wrote.                                        *)
(***************************************************************************)
C20_ConcurrentMissesLeaveSequentialEntry ==
    []C20_CacheHoldsWholeResults /\ <>[]AllDone

\* Both threads ran the same unlimited query, both missed, both wrote.
C20_Witness ==
    /\ SameUnlimitedQuery /\ AllDone
    /\ \A t \in Threads : ~threads[t].hit /\ threads[t].stored
    /\ _tree_cache[cache_key(threads["t1"].q)] = Sequential(threads["t1"].q)
    /\ threads["t1"].result # <<>>

C22_EmptyResultWarns ==
    (IsExport(last) /\ last.built /\ last.roots = <<>>)
        => /\ Returned(last)
           /\ last.result = format_output(last.q.format, <<>>)
           /\ last.warnings # <<>>

IsSave(step) == step.op = "Swing.save_ui_tree"

(***************************************************************************)
(* C23: saving the tree with a format and a max_depth leaves at the path a *)
(* file whose content is exactly the string the export returns for that    *)
(* format and max_depth with no type filters.                              *)
(***************************************************************************)
C23_SavedFileEqualsExport ==
    (IsSave(last) /\ last.file.path = "writable")
        => /\ Returned(last)
           /\ last.file.written
           /\ last.file.content = Sequential(last.q)

(***************************************************************************)
(* C24: saving to a path whose parent directory does not exist, or that is *)
(* not writable, fails with the file system's own error, creates no        *)
(* directory and leaves no file.                                           *)
(***************************************************************************)
C24_UnwritablePathFailsWithFilesystemError ==
    (IsSave(last) /\ last.file.path \in {"missing_parent", "read_only"})
        => /\ last.outcome = "raised"
           /\ last.error \in {"FileNotFoundError", "PermissionError"}
           /\ ~last.file.written
           /\ ~last.file.dir_created

\* The string the same query returns when exported in another format.
ExportAs(q, format) == Sequential([q EXCEPT !.format = format])

CountOf(piece, out) == Cardinality({i \in 1..Len(out) : out[i] = piece})

\* Node records of a JSON document, of a YAML document, and body rows of a
\* CSV document (its lines but the header line).
JsonRecords(out) == CountOf("{\"type\": \"", out)
YamlRecords(out) == CountOf("  - type: ", out)
LineCount(out) ==
    CountOf("\n", out) + (IF out # <<>> /\ out[Len(out)] # "\n" THEN 1 ELSE 0)
CsvBodyRows(out) == LineCount(out) - 1

(***************************************************************************)
(* C25: the json, the yaml and the csv output of one query all hold as     *)
(* many node records as the filtered collection has nodes.                 *)
(***************************************************************************)
C25_RecordCountEqualsMatchCount ==
    (IsExport(last) /\ Returned(last) /\ last.built)
        => /\ JsonRecords(ExportAs(last.q, s_json)) = Len(last.roots)
           /\ YamlRecords(ExportAs(last.q, s_yaml)) = Len(last.roots)
           /\ CsvBodyRows(ExportAs(last.q, s_csv)) = Len(last.roots)

\* The lines of a text, without their line ends.
RECURSIVE LinesFrom(_, _, _)
LinesFrom(out, i, cur) ==
    IF i > Len(out) THEN (IF cur = <<>> THEN <<>> ELSE <<cur>>)
    ELSE IF out[i] = "\n" THEN <<cur>> \o LinesFrom(out, i + 1, <<>>)
    ELSE LinesFrom(out, i + 1, Append(cur, out[i]))

Lines(out) == LinesFrom(out, 1, <<>>)

DigitText(n) == <<"0", "1", "2", "3", "4", "5", "6", "7", "8", "9">>[n + 1]

\* A path written as its sibling indices joined by dots: 0.0.1
RECURSIVE PathText(_)
PathText(path) ==
    IF Len(path) = 1 THEN <<DigitText(path[1])>>
    ELSE PathText(SubSeq(path, 1, Len(path) - 1)) \o <<".", DigitText(path[Len(path)])>>

\* The first two columns of a node's csv row: path,depth,
RowStart(node) ==
    LET path == CHOOSE p \in PathsOf(node) : TRUE IN
    PathText(path) \o <<",", DigitText(Len(path) - 1), ",">>

StartsWith(line, start) ==
    Len(line) >= Len(start) /\ SubSeq(line, 1, Len(start)) = start

(***************************************************************************)
(* C26: a csv export has, after its header line, one row per matched node  *)
(* in pre-order; the row's path column is the node's dot-joined path of    *)
(* sibling indices in the snapshot and its depth column the number of path *)
(* segments minus one.                                                     *)
(***************************************************************************)
C26_CsvRowsCarryPathAndDepth ==
    (IsExport(last) /\ Returned(last) /\ last.built /\ last.q.format = s_csv)
        => /\ Len(Lines(last.result)) = Len(last.roots) + 1
           /\ \A i \in 1..Len(last.roots) :
                  /\ i + 1 <= Len(Lines(last.result))
                  /\ StartsWith(Lines(last.result)[i + 1], RowStart(last.roots[i]))

IsLocatorKeyword(step) == step.op \in LocatorKeywords

\* An empty or whitespace-only text.
Blank(s) == \A i \in 1..Len(s) : IsSpace(s[i])

(***************************************************************************)
(* C27: a locator keyword called with an empty or whitespace-only locator  *)
(* fails with the 'Locator cannot be empty' error, and the backend is not  *)
(* called for it.                                                          *)
(***************************************************************************)
C27_BlankLocatorRejectedBeforeBackend ==
    (IsLocatorKeyword(last) /\ Blank(last.q.locator.val))
        => /\ last.outcome = "raised"
           /\ last.error = "LocatorEmpty"
           /\ last.backend.attempts = 0

\* The six fields that identify a cache entry (section 3).
Signature(q) ==
    <<q.format, q.types, q.exclude_types, q.visible_only, q.enabled_only,
      q.focusable_only>>

(***************************************************************************)
(* C28: unlimited queries that differ in format, types, exclude_types or a *)
(* state filter have different cache keys, and a cache hit returns the     *)
(* string computed for the caller's own six-field signature, also when a   *)
(* type string holds the key's separator.                                  *)
(***************************************************************************)
C28_CacheKeyIdentifiesSignature ==
    /\ \A q1, q2 \in KeyQueries :
           cache_key(q1) = cache_key(q2) => Signature(q1) = Signature(q2)
    /\ (IsExport(last) /\ last.hit) => last.result = Sequential(last.q)

\* What the finished or running wait has done so far is allowed by the claim.
WaitOutcomeJustified ==
    /\ wait.outcome = "returned" =>
           /\ wait.polls > 0
           /\ ~wait.read.raised
           /\ Contains(wait.read.text, wait.text)
    /\ wait.outcome = "raised" =>
           /\ wait.error = "TimeoutError"
           /\ wait.now >= wait.end_time
    /\ wait.pc = "done" <=> wait.outcome \in {"returned", "raised"}

(***************************************************************************)
(* C29: wait_until_element_contains always terminates; it returns only     *)
(* after a poll that read a text containing the expected substring, and    *)
(* otherwise raises TimeoutError once the timeout has elapsed; an error    *)
(* raised by a poll never escapes.                                         *)
(***************************************************************************)
C29_WaitTerminatesWithTextOrTimeout ==
    /\ []WaitOutcomeJustified
    /\ (wait.pc # "idle") ~> (wait.pc = "done")

C29_Witness ==
    /\ wait.pc = "done"
    /\ wait.outcome = "raised"
    /\ wait.error = "TimeoutError"
    /\ wait.polls > 1
    /\ wait.read.raised

IsShouldNotExist(step) == step.op = "Swing.element_should_not_exist"

(***************************************************************************)
(* C30: element_should_not_exist raises AssertionError when the lookup     *)
(* finds the element, and passes only when the backend lookup completed    *)
(* and found no element: a lookup that failed is not reported as a pass.   *)
(***************************************************************************)
C30_PassOnlyAfterCompletedEmptyLookup ==
    IsShouldNotExist(last) =>
        /\ (~last.backend.raised /\ find_elements(last.q.locator.val) # <<>>)
               => (last.outcome = "raised" /\ last.error = "AssertionError")
        /\ Returned(last) =>
               (~last.backend.raised /\ find_elements(last.q.locator.val) = <<>>)

====
